---- MODULE Spec2Model ----
(***************************************************************************)
(* Model of the Volume-Hand-Controller entry point, src/main.py:           *)
(* VolumeControlApp.__init__, process_frame, display_info, run, cleanup,   *)
(* main and the top-level handler.  One action per statement (or short     *)
(* straight-line group of statements) of the single thread of control, so  *)
(* that an exception or a KeyboardInterrupt can cut in between any two of  *)
(* them.  The collaborators that main.py imports (components.HandDetector, *)
(* components.VolumeChanger, utils.error) are modelled from spec.md.       *)
(***************************************************************************)
EXTENDS Integers, Sequences, FiniteSets

\* ------------------------------------------------------------- bounds
\* Most loop iterations (cap.read calls) explored.
MaxFrames == 3
\* Largest number of clock ticks between two time.time() readings.
MaxDelta == 2

\* ------------------------------------------------- calibration (spec 4.2, 8)
MinDistance == 20
MaxDistance == 200
MinLevel == 0
MaxLevel == 100

\* Levels the OS endpoint may hold when the program starts.
OsLevels == {MinLevel, 37, MaxLevel}

\* Number of landmarks of one detected hand (spec 3, LandmarkSet).
NumLandmarks == 21
\* main.py indexes the thumb tip and the index-finger tip (0-based).
ThumbTip == 4
IndexTip == 8

VARIABLES
    pc,             \* position of the single thread of control
    exitStatus,     \* -1 while running, else the process exit status
    exc,            \* exception in flight out of run(), or "none"
    reset_volume,   \* the --reset-volume flag handed to VolumeControlApp
    capOpen,        \* self.cap holds an opened capture device
    detectorUp,     \* self.detector is constructed
    volumeUp,       \* self.volume is constructed
    baseline,       \* VolumeChanger's BaselineVolumeLevel
    osVolume,       \* the level of the OS audio endpoint
    db,             \* self.db
    previous_time,  \* self.previous_time
    success,        \* run(): success of the last cap.read()
    img,            \* run(): "none" | "frame"
    lm_positions,   \* process_frame(): landmark list, << >> when no hand
    length,         \* process_frame(): thumb-index distance
    localDb,        \* process_frame(): the local name db (line 50)
    fps,            \* run(): fps
    shownDb,        \* volume value last rendered by display_info
    prevShownDb,    \* volume value rendered by the display before that
    shownFps,       \* FPS value last rendered by display_info
    \* ---- observation (history) variables, never read by the program
    frames,         \* number of cap.read() calls so far
    shownFrame,     \* value of frames at the last display_info, 0 if none
    displays,       \* number of display_info calls
    got,            \* this iteration's get_positions result: none|empty|hand
    iterDetect,     \* detector calls (draw_hands, get_positions) this iteration
    iterScaled,     \* get_scaled_db calls this iteration
    iterSet,        \* set_volume calls this iteration
    iterDelta,      \* this iteration's time delta, -1 before it is taken
    setVolumeCalls, \* set_volume calls in total
    releaseCalls,   \* cap.release() calls
    destroyCalls,   \* cv2.destroyAllWindows() calls
    resetCalls,     \* reset_default_volume() calls
    audioCalls,     \* calls that touch the audio endpoint or its controller
    lastWrite,      \* last write to the OS volume: none | set | reset
    errorReports,   \* utils.error calls
    quitSeen,       \* waitKey returned 'q'
    interruptSeen,  \* KeyboardInterrupt was caught by run()
    stderrMsg,      \* message sys.exit wrote to the error stream, or "none"
    loopExc,        \* exception raised inside the try block of run(), or "none"
    scaledArg,      \* distance last passed to get_scaled_db, -1 if none
    setArg,         \* distance last passed to set_volume, -1 if none
    handled         \* the handler around main() printed 'An error occurred'

ctl == <<pc, exitStatus, exc>>
app == <<reset_volume, capOpen, detectorUp, volumeUp, baseline, osVolume, db,
         previous_time>>
loc == <<success, img, lm_positions, length, localDb, fps>>
scr == <<shownDb, prevShownDb, shownFps, shownFrame, displays>>
itr == <<frames, got, iterDetect, iterScaled, iterSet, iterDelta>>
cnt == <<setVolumeCalls, releaseCalls, destroyCalls, resetCalls, audioCalls,
         lastWrite, errorReports, quitSeen, interruptSeen, stderrMsg>>
obs == <<scaledArg, setArg, handled>>
vars == <<ctl, app, loc, scr, itr, cnt, loopExc, obs>>

\* ------------------------------------------------------ pure functions
Abs(n) == IF n < 0 THEN -n ELSE n

\* math.hypot(dx, dy), on the integer grid.
Hypot(dx, dy) ==
    LET s == dx * dx + dy * dy
        hi == Abs(dx) + Abs(dy)
    IN CHOOSE r \in 0..hi : r * r <= s /\ (r + 1) * (r + 1) > s

\* A landmark list: 21 triples (index, x, y); list index i is sequence
\* position i + 1.
MkHand(thumb, index) ==
    [i \in 1..NumLandmarks |->
        IF i = ThumbTip + 1 THEN <<ThumbTip, thumb[1], thumb[2]>>
        ELSE IF i = IndexTip + 1 THEN <<IndexTip, index[1], index[2]>>
        ELSE <<i - 1, 0, 0>>]

\* Index-finger tips seen with the thumb tip at (10, 10): distances
\* 5, 20, 110, 200 and 500 pixels.
IndexTips == {<<13, 14>>, <<22, 26>>, <<76, 98>>, <<130, 170>>, <<310, 410>>}
Hands == {MkHand(<<10, 10>>, p) : p \in IndexTips}

\* lm_positions[k][1:3]
XY(lm, k) == <<lm[k + 1][2], lm[k + 1][3]>>

\* process_frame lines 40-42.
FingerDistance(lm) ==
    LET p1 == XY(lm, ThumbTip)
        p2 == XY(lm, IndexTip)
    IN Hypot(p2[1] - p1[1], p2[2] - p1[2])

\* VolumeChanger.get_scaled_db: clamped linear interpolation (spec 4.2).
get_scaled_db(d) ==
    IF d <= MinDistance THEN MinLevel
    ELSE IF d >= MaxDistance THEN MaxLevel
    ELSE MinLevel + ((d - MinDistance) * (MaxLevel - MinLevel))
                        \div (MaxDistance - MinDistance)

\* int(1 / (current_time - previous_time)), one tick being one second.
FpsOf(dt) == 1 \div dt

\* ------------------------------------------------------------ control
\* Positions inside the try block of run() (lines 62-83): the Running state.
RunningPcs == {"read", "error", "draw", "positions", "measure", "set_volume",
               "fps", "display", "wait_key"}
\* Positions inside cleanup() (lines 92-94): the Stopping state.
StoppingPcs == {"release", "destroy", "reset"}
\* Positions inside __init__ (lines 15-30): the Starting state.
StartingPcs == {"open_camera", "make_detector", "make_volume", "init_db"}

\* sys.exit called so that the process ends with status 0.
SysExitZero(msg) ==
    /\ UNCHANGED loopExc
    /\ pc' = "stopped"
    /\ exitStatus' = 0
    /\ exc' = "SystemExit"
    /\ stderrMsg' = msg

\* sys.exit(<message>): the message goes to the error stream and the
\* process ends with status 1 (lines 17, 22, 27).
SysExit(msg) ==
    /\ UNCHANGED loopExc
    /\ pc' = "stopped"
    /\ exitStatus' = 1
    /\ exc' = "SystemExit"
    /\ stderrMsg' = msg

\* An exception raised inside the try block of run(): no except clause
\* matches it, the finally clause runs cleanup() with it in flight.
RaiseInLoop(kind) ==
    /\ pc' = "release"
    /\ exc' = kind
    /\ loopExc' = kind
    /\ UNCHANGED exitStatus

\* An exception raised by a step of cleanup(): it leaves cleanup() and
\* run() at once and reaches the handler around main().
RaiseInCleanup ==
    /\ pc' = "main_except"
    /\ exc' = "TeardownError"
    /\ UNCHANGED loopExc
    /\ UNCHANGED exitStatus

\* Line 51 dedented out of the if of line 38: set_volume on every frame.
NextAfterPositionsDedented(lm) ==
    IF lm # << >> THEN "measure" ELSE "set_volume"

\* The truth test of line 38 and the statement it leads to.
NextAfterPositions(lm) == IF lm # << >> THEN "measure" ELSE "fps"

\* set_volume called with the mapped level instead of the distance.
SetVolumeArgLevel == localDb

\* The argument of self.volume.set_volume at line 51.
SetVolumeArg == length

\* The value display_info renders after 'Volume:' (line 58).
DisplayedDb == db

\* Where run() goes after the key poll (lines 82-83).
NextAfterKey(key) == IF key = "q" THEN "release" ELSE "read"

\* Where control goes once cleanup() has returned (end of the finally).
NextAfterCleanup(e) == IF e = "none" THEN "returned" ELSE "main_except"

\* -------------------------------------------------------------- Init
Init ==
    /\ pc = "open_camera"
    /\ exitStatus = -1
    /\ exc = "none"
    /\ reset_volume \in BOOLEAN
    /\ capOpen = FALSE
    /\ detectorUp = FALSE
    /\ volumeUp = FALSE
    /\ baseline = -1
    /\ osVolume \in OsLevels
    /\ db = -1
    /\ previous_time = 0
    /\ success = FALSE
    /\ img = "none"
    /\ lm_positions = << >>
    /\ length = 0
    /\ localDb = -1
    /\ fps = 0
    /\ shownDb = -1
    /\ prevShownDb = -1
    /\ shownFps = -1
    /\ frames = 0
    /\ shownFrame = 0
    /\ displays = 0
    /\ got = "none"
    /\ iterDetect = 0
    /\ iterScaled = 0
    /\ iterSet = 0
    /\ iterDelta = -1
    /\ setVolumeCalls = 0
    /\ releaseCalls = 0
    /\ destroyCalls = 0
    /\ resetCalls = 0
    /\ audioCalls = 0
    /\ lastWrite = "none"
    /\ errorReports = 0
    /\ quitSeen = FALSE
    /\ interruptSeen = FALSE
    /\ stderrMsg = "none"
    /\ loopExc = "none"
    /\ scaledArg = -1
    /\ setArg = -1
    /\ handled = FALSE

\* ---------------------------------------------------------- __init__
\* Lines 15-17: open the capture device, exit if it is not opened.
OpenCamera ==
    /\ pc = "open_camera"
    /\ \/ /\ capOpen' = TRUE
          /\ pc' = "make_detector"
          /\ UNCHANGED <<exitStatus, exc, loopExc, stderrMsg>>
       \/ /\ SysExit("Camera could not be opened")
          /\ UNCHANGED capOpen
    /\ UNCHANGED <<reset_volume, detectorUp, volumeUp, baseline, osVolume, db,
                   previous_time>>
    /\ UNCHANGED <<loc, scr, itr>>
    /\ UNCHANGED <<setVolumeCalls, releaseCalls, destroyCalls, resetCalls,
                   audioCalls, lastWrite, errorReports, quitSeen,
                   interruptSeen>>
    /\ UNCHANGED obs

\* The failure branch made to release the capture device before exiting.
MakeDetectorReleasing ==
    /\ pc = "make_detector"
    /\ \/ /\ detectorUp' = TRUE
          /\ pc' = "make_volume"
          /\ UNCHANGED <<exitStatus, exc, loopExc, stderrMsg, capOpen,
                         releaseCalls>>
       \/ /\ SysExit("Failed to initialize HandDetector")
          /\ capOpen' = FALSE
          /\ releaseCalls' = releaseCalls + 1
          /\ UNCHANGED detectorUp
    /\ UNCHANGED <<reset_volume, volumeUp, baseline, osVolume, db,
                   previous_time>>
    /\ UNCHANGED <<loc, scr, itr, obs>>
    /\ UNCHANGED <<setVolumeCalls, destroyCalls, resetCalls, audioCalls,
                   lastWrite, errorReports, quitSeen, interruptSeen>>

\* Lines 19-22: construct the HandDetector, exit if that raises.
MakeDetector ==
    /\ pc = "make_detector"
    /\ \/ /\ detectorUp' = TRUE
          /\ pc' = "make_volume"
          /\ UNCHANGED <<exitStatus, exc, loopExc, stderrMsg>>
       \/ /\ SysExit("Failed to initialize HandDetector")
          /\ UNCHANGED detectorUp
    /\ UNCHANGED <<reset_volume, capOpen, volumeUp, baseline, osVolume, db,
                   previous_time>>
    /\ UNCHANGED <<loc, scr, itr>>
    /\ UNCHANGED <<setVolumeCalls, releaseCalls, destroyCalls, resetCalls,
                   audioCalls, lastWrite, errorReports, quitSeen,
                   interruptSeen>>
    /\ UNCHANGED obs

\* Lines 24-27: construct the VolumeChanger, which reads and stores the
\* baseline level of the endpoint whatever the flag (spec 4.3); exit if
\* the construction raises.
MakeVolume ==
    /\ pc = "make_volume"
    /\ audioCalls' = audioCalls + 1
    /\ \/ /\ volumeUp' = TRUE
          /\ baseline' = osVolume
          /\ pc' = "init_db"
          /\ UNCHANGED <<exitStatus, exc, loopExc, stderrMsg>>
       \/ /\ SysExit("Failed to initialize VolumeChanger")
          /\ UNCHANGED <<volumeUp, baseline>>
    /\ UNCHANGED <<reset_volume, capOpen, detectorUp, osVolume, db,
                   previous_time>>
    /\ UNCHANGED <<loc, scr, itr>>
    /\ UNCHANGED <<setVolumeCalls, releaseCalls, destroyCalls, resetCalls,
                   lastWrite, errorReports, quitSeen, interruptSeen>>
    /\ UNCHANGED obs

\* Lines 29-30: self.db = get_initial_db(); self.previous_time = now.
\* The clock is read relative to this first reading.
InitDb ==
    /\ pc = "init_db"
    /\ db' = baseline
    /\ previous_time' = 0
    /\ audioCalls' = audioCalls + 1
    /\ pc' = "read"
    /\ UNCHANGED <<exitStatus, exc, loopExc>>
    /\ UNCHANGED <<reset_volume, capOpen, detectorUp, volumeUp, baseline,
                   osVolume>>
    /\ UNCHANGED <<loc, scr, itr>>
    /\ UNCHANGED <<setVolumeCalls, releaseCalls, destroyCalls, resetCalls,
                   lastWrite, errorReports, quitSeen, interruptSeen,
                   stderrMsg>>
    /\ UNCHANGED obs

\* --------------------------------------------------------------- run
\* Line 64: success, img = self.cap.read().  A new iteration begins.
Read ==
    /\ pc = "read"
    /\ frames < MaxFrames
    /\ frames' = frames + 1
    /\ got' = "none"
    /\ iterDetect' = 0
    /\ iterScaled' = 0
    /\ iterSet' = 0
    /\ iterDelta' = -1
    /\ \/ /\ success' = TRUE
          /\ img' = "frame"
          /\ pc' = "draw"
          /\ UNCHANGED <<exitStatus, exc, loopExc>>
       \/ /\ success' = FALSE
          /\ img' = "none"
          /\ pc' = "error"
          /\ UNCHANGED <<exitStatus, exc, loopExc>>
       \/ /\ RaiseInLoop("ReadError")
          /\ UNCHANGED <<success, img>>
    /\ UNCHANGED <<lm_positions, length, localDb, fps>>
    /\ UNCHANGED <<app, scr, cnt>>
    /\ UNCHANGED obs

\* Lines 65-66: utils.error('Unable to process image', cap, volume)
\* reports the failed read and returns (spec 6, 7); line 68 follows.
ReportError ==
    /\ pc = "error"
    /\ errorReports' = errorReports + 1
    /\ pc' = "draw"
    /\ UNCHANGED <<exitStatus, exc, loopExc>>
    /\ UNCHANGED <<app, loc, scr, itr>>
    /\ UNCHANGED <<setVolumeCalls, releaseCalls, destroyCalls, resetCalls,
                   audioCalls, lastWrite, quitSeen, interruptSeen, stderrMsg>>
    /\ UNCHANGED obs

\* Line 35: self.detector.draw_hands(img), which may raise.
DrawHands ==
    /\ pc = "draw"
    /\ iterDetect' = iterDetect + 1
    /\ \/ /\ pc' = "positions"
          /\ UNCHANGED <<exitStatus, exc, loopExc>>
       \/ RaiseInLoop("DetectionError")
    /\ UNCHANGED <<frames, got, iterScaled, iterSet, iterDelta>>
    /\ UNCHANGED <<app, loc, scr, cnt>>
    /\ UNCHANGED obs

\* What get_positions may return for a frame: no hand, or one hand; for
\* the absent frame of a failed read, no hand.
PositionsFor(i) == IF i = "frame" THEN {<< >>} \cup Hands ELSE {<< >>}

\* Lines 36 and 38: lm_positions = get_positions(img); if lm_positions.
GetPositions ==
    /\ pc = "positions"
    /\ iterDetect' = iterDetect + 1
    /\ \/ \E lm \in PositionsFor(img) :
            /\ lm_positions' = lm
            /\ got' = IF lm = << >> THEN "empty" ELSE "hand"
            /\ pc' = NextAfterPositions(lm)
            /\ UNCHANGED <<exitStatus, exc, loopExc>>
       \/ /\ RaiseInLoop("DetectionError")
          /\ UNCHANGED <<lm_positions, got>>
    /\ UNCHANGED <<frames, iterScaled, iterSet, iterDelta>>
    /\ UNCHANGED <<success, img, length, localDb, fps>>
    /\ UNCHANGED <<app, scr, cnt>>
    /\ UNCHANGED obs

\* Lines 40-50: the two fingertips, their distance, the markers, and
\* db = self.volume.get_scaled_db(length), bound to the local name db.
Measure ==
    /\ pc = "measure"
    /\ length' = FingerDistance(lm_positions)
    /\ localDb' = get_scaled_db(length')
    /\ iterScaled' = iterScaled + 1
    /\ audioCalls' = audioCalls + 1
    /\ pc' = "set_volume"
    /\ UNCHANGED <<exitStatus, exc, loopExc>>
    /\ UNCHANGED <<frames, got, iterDetect, iterSet, iterDelta>>
    /\ UNCHANGED <<success, img, lm_positions, fps>>
    /\ UNCHANGED <<app, scr>>
    /\ UNCHANGED <<setVolumeCalls, releaseCalls, destroyCalls, resetCalls,
                   lastWrite, errorReports, quitSeen, interruptSeen,
                   stderrMsg>>
    /\ scaledArg' = length'
    /\ UNCHANGED <<setArg, handled>>

\* Line 51: self.volume.set_volume(length) writes the mapped level to the
\* OS endpoint, or fails without writing.
SetVolume ==
    /\ pc = "set_volume"
    /\ setVolumeCalls' = setVolumeCalls + 1
    /\ iterSet' = iterSet + 1
    /\ audioCalls' = audioCalls + 1
    /\ setArg' = SetVolumeArg
    /\ UNCHANGED <<scaledArg, handled>>
    /\ \/ /\ osVolume' = get_scaled_db(SetVolumeArg)
          /\ lastWrite' = "set"
          /\ pc' = "fps"
          /\ UNCHANGED <<exitStatus, exc, loopExc>>
       \/ /\ RaiseInLoop("VolumeError")
          /\ UNCHANGED <<osVolume, lastWrite>>
    /\ UNCHANGED <<frames, got, iterDetect, iterScaled, iterDelta>>
    /\ UNCHANGED <<reset_volume, capOpen, detectorUp, volumeUp, baseline, db,
                   previous_time>>
    /\ UNCHANGED <<loc, scr>>
    /\ UNCHANGED <<releaseCalls, destroyCalls, resetCalls, errorReports,
                   quitSeen, interruptSeen, stderrMsg>>

\* Lines 71-73: current_time = time.time(); fps = int(1 / delta);
\* self.previous_time = current_time.  The division raises
\* ZeroDivisionError when the two readings are equal.
ComputeFps ==
    /\ pc = "fps"
    /\ \E current_time \in previous_time..(previous_time + MaxDelta) :
         /\ iterDelta' = current_time - previous_time
         /\ IF current_time - previous_time = 0
            THEN /\ RaiseInLoop("ZeroDivisionError")
                 /\ UNCHANGED <<fps, previous_time>>
            ELSE /\ fps' = FpsOf(current_time - previous_time)
                 /\ previous_time' = current_time
                 /\ pc' = "display"
                 /\ UNCHANGED <<exitStatus, exc, loopExc>>
    /\ UNCHANGED <<frames, got, iterDetect, iterScaled, iterSet>>
    /\ UNCHANGED <<reset_volume, capOpen, detectorUp, volumeUp, baseline,
                   osVolume, db>>
    /\ UNCHANGED <<success, img, lm_positions, length, localDb>>
    /\ UNCHANGED <<scr, cnt>>
    /\ UNCHANGED obs

\* Lines 76-79: display_info(img, fps) then cv2.imshow, which may raise.
Display ==
    /\ pc = "display"
    /\ shownDb' = DisplayedDb
    /\ prevShownDb' = shownDb
    /\ shownFps' = fps
    /\ shownFrame' = frames
    /\ displays' = displays + 1
    /\ \/ /\ pc' = "wait_key"
          /\ UNCHANGED <<exitStatus, exc, loopExc>>
       \/ RaiseInLoop("DisplayError")
    /\ UNCHANGED <<app, loc, itr, cnt>>
    /\ UNCHANGED obs

\* Lines 82-83: poll the keyboard, leave the loop on 'q'.
WaitKey ==
    /\ pc = "wait_key"
    /\ \/ \E key \in {"q", "other"} :
            /\ pc' = NextAfterKey(key)
            /\ quitSeen' = (key = "q")
            /\ UNCHANGED <<exitStatus, exc, loopExc>>
       \/ /\ RaiseInLoop("DisplayError")
          /\ UNCHANGED quitSeen
    /\ UNCHANGED <<app, loc, scr, itr>>
    /\ UNCHANGED <<setVolumeCalls, releaseCalls, destroyCalls, resetCalls,
                   audioCalls, lastWrite, errorReports, interruptSeen,
                   stderrMsg>>
    /\ UNCHANGED obs

\* Lines 85-86: a KeyboardInterrupt raised anywhere in the try block is
\* caught, a message is printed, and the finally clause follows.
Interrupt ==
    /\ pc \in RunningPcs
    /\ interruptSeen' = TRUE
    /\ pc' = "release"
    /\ UNCHANGED <<exitStatus, exc, loopExc>>
    /\ UNCHANGED <<app, loc, scr, itr>>
    /\ UNCHANGED <<setVolumeCalls, releaseCalls, destroyCalls, resetCalls,
                   audioCalls, lastWrite, errorReports, quitSeen, stderrMsg>>
    /\ UNCHANGED obs

\* ----------------------------------------------------------- cleanup
\* Line 92: self.cap.release().  If it raises, lines 93-94 are skipped.
Release ==
    /\ pc = "release"
    /\ releaseCalls' = releaseCalls + 1
    /\ \/ /\ capOpen' = FALSE
          /\ pc' = "destroy"
          /\ UNCHANGED <<exitStatus, exc, loopExc>>
       \/ /\ RaiseInCleanup
          /\ UNCHANGED capOpen
    /\ UNCHANGED <<reset_volume, detectorUp, volumeUp, baseline, osVolume, db,
                   previous_time>>
    /\ UNCHANGED <<loc, scr, itr>>
    /\ UNCHANGED <<setVolumeCalls, destroyCalls, resetCalls, audioCalls,
                   lastWrite, errorReports, quitSeen, interruptSeen,
                   stderrMsg>>
    /\ UNCHANGED obs

\* Line 93: cv2.destroyAllWindows().  If it raises, line 94 is skipped.
DestroyWindows ==
    /\ pc = "destroy"
    /\ destroyCalls' = destroyCalls + 1
    /\ \/ /\ pc' = "reset"
          /\ UNCHANGED <<exitStatus, exc, loopExc>>
       \/ RaiseInCleanup
    /\ UNCHANGED <<app, loc, scr, itr>>
    /\ UNCHANGED <<setVolumeCalls, releaseCalls, resetCalls, audioCalls,
                   lastWrite, errorReports, quitSeen, interruptSeen,
                   stderrMsg>>
    /\ UNCHANGED obs

\* Line 94: self.volume.reset_default_volume() writes the baseline back
\* to the OS endpoint (spec 4.3); the baseline was read from the endpoint,
\* so it is a level the endpoint accepts (spec 6).
ResetVolume ==
    /\ pc = "reset"
    /\ resetCalls' = resetCalls + 1
    /\ audioCalls' = audioCalls + 1
    /\ osVolume' = baseline
    /\ lastWrite' = "reset"
    /\ pc' = NextAfterCleanup(exc)
    /\ UNCHANGED <<exitStatus, exc, loopExc>>
    /\ UNCHANGED <<reset_volume, capOpen, detectorUp, volumeUp, baseline, db,
                   previous_time>>
    /\ UNCHANGED <<loc, scr, itr>>
    /\ UNCHANGED <<setVolumeCalls, releaseCalls, destroyCalls, errorReports,
                   quitSeen, interruptSeen, stderrMsg>>
    /\ UNCHANGED obs

\* ------------------------------------------------------ main, __main__
\* Lines 100 and 120: run() and main() return, the process ends with 0.
MainReturn ==
    /\ pc = "returned"
    /\ pc' = "stopped"
    /\ exitStatus' = 0
    /\ UNCHANGED <<exc, loopExc>>
    /\ UNCHANGED <<app, loc, scr, itr, cnt>>
    /\ UNCHANGED obs

\* The handler made to end the process with status 1 after printing.
MainExceptExitOne ==
    /\ pc = "main_except"
    /\ pc' = "stopped"
    /\ exitStatus' = 1
    /\ handled' = TRUE
    /\ UNCHANGED <<exc, loopExc, scaledArg, setArg>>
    /\ UNCHANGED <<app, loc, scr, itr, cnt>>

\* Lines 121-122: the handler around main() catches the exception and
\* prints it; the script then ends with status 0.
MainExcept ==
    /\ pc = "main_except"
    /\ pc' = "stopped"
    /\ exitStatus' = 0
    /\ UNCHANGED <<exc, loopExc>>
    /\ UNCHANGED <<app, loc, scr, itr, cnt>>
    /\ handled' = TRUE
    /\ UNCHANGED <<scaledArg, setArg>>

Next ==
    \/ OpenCamera
    \/ MakeDetector
    \/ MakeVolume
    \/ InitDb
    \/ Read
    \/ ReportError
    \/ DrawHands
    \/ GetPositions
    \/ Measure
    \/ SetVolume
    \/ ComputeFps
    \/ Display
    \/ WaitKey
    \/ Interrupt
    \/ Release
    \/ DestroyWindows
    \/ ResetVolume
    \/ MainReturn
    \/ MainExcept

Spec == Init /\ [][Next]_vars

\* The thread of control always takes its next step; Read stops at the
\* exploration bound and Interrupt is an input that need not arrive.
Step ==
    \/ OpenCamera \/ MakeDetector \/ MakeVolume \/ InitDb
    \/ ReportError \/ DrawHands \/ GetPositions \/ Measure \/ SetVolume
    \/ ComputeFps \/ Display \/ WaitKey
    \/ Release \/ DestroyWindows \/ ResetVolume \/ MainReturn \/ MainExcept

FairSpec == Spec /\ WF_vars(Step)

\* ------------------------------------------------------------ claims
\* __init__ completed and run() was entered.
ReachedRunning == volumeUp /\ pc \notin StartingPcs

\* C1: on every path out of the Running loop the release sequence is
\* executed and each of its three steps (capture release, display close,
\* reset_default_volume) happens exactly once.
C1_ReleaseSequenceOnce ==
    (pc = "stopped" /\ ReachedRunning) =>
        /\ releaseCalls = 1
        /\ destroyCalls = 1
        /\ resetCalls = 1

\* C2: for every run that reached Running, at Stopped the OS volume
\* equals the baseline captured at startup (the restore, not a
\* set_volume, was the last write that took effect).
C2_BaselineAtStopped ==
    (pc = "stopped" /\ ReachedRunning) => osVolume = baseline

\* C3: once 'q' is observed, the capture device is released exactly once
\* and the audio endpoint is restored exactly once by the time the
\* program is Stopped.
C3_QuitReleasesAndRestores ==
    (quitSeen /\ pc = "stopped") =>
        /\ releaseCalls = 1
        /\ resetCalls = 1

\* C4: a startup failure in __init__ ends the process with a non-zero
\* status before any frame is read, with no set_volume and no
\* reset_default_volume call; when the camera open is what failed, the
\* volume controller is not constructed and no audio call is made.
C4_StartupFailure ==
    (stderrMsg # "none") =>
        /\ pc = "stopped"
        /\ exitStatus # 0
        /\ exitStatus # -1
        /\ frames = 0
        /\ setVolumeCalls = 0
        /\ resetCalls = 0
        /\ releaseCalls = 0
        /\ (stderrMsg = "Camera could not be opened" =>
                ~volumeUp /\ audioCalls = 0)

C4_Witness ==
    /\ pc = "stopped"
    /\ stderrMsg = "Camera could not be opened"
    /\ ~capOpen

\* C5: in an iteration where get_positions returned the empty result,
\* no set_volume and no get_scaled_db call is made, and the volume value
\* display_info shows in that iteration is the one shown in the
\* previous iteration.
C5_EmptyHandNoChange ==
    (got = "empty") =>
        /\ iterSet = 0
        /\ iterScaled = 0
        /\ (shownFrame = frames /\ displays >= 2 => shownDb = prevShownDb)

C5_Witness ==
    /\ got = "empty"
    /\ shownFrame = frames
    /\ displays >= 2
    /\ setVolumeCalls >= 1
    /\ osVolume # baseline

\* C6: in an iteration where landmarks are present, the volume value
\* display_info renders equals the level get_scaled_db returned for that
\* frame's thumb-index distance.
C6_ShownIsScaledLevel ==
    (got = "hand" /\ shownFrame = frames) =>
        shownDb = get_scaled_db(length)

\* C7: when the timestamp of an iteration equals the previous one
\* (delta t = 0), no division by zero happens: no ZeroDivisionError is
\* raised and the loop is not left through the exception path.
C7_FpsGuard ==
    (iterDelta = 0) => exc = "none"

\* C8: in an iteration whose cap.read() failed, the per-frame pipeline
\* is not run: no detector call and no set_volume call is made.
C8_FailedReadSkipsPipeline ==
    (frames >= 1 /\ ~success /\ pc \in RunningPcs) =>
        /\ iterDetect = 0
        /\ iterSet = 0

\* C9: teardown is best-effort: when releasing the capture device or
\* closing the windows raises inside cleanup, reset_default_volume is
\* still called.
C9_BestEffortTeardown ==
    (exc = "TeardownError" /\ pc = "stopped") => resetCalls = 1

\* C10: a KeyboardInterrupt caught in the Running loop ends like the
\* quit key: capture released, display closed and volume restored, each
\* once, and run() returns with no error propagating.
C10_InterruptLikeQuit ==
    (interruptSeen /\ pc = "stopped") =>
        /\ releaseCalls = 1
        /\ destroyCalls = 1
        /\ resetCalls = 1
        /\ exc = "none"
        /\ exitStatus = 0

\* C11: a detector failure during a frame is fatal: no set_volume is made
\* for that frame, no further frame is read or processed, and the
\* cleanup sequence (capture release, display close,
\* reset_default_volume) has run when the program stops.
C11_DetectorFailureFatal ==
    (loopExc = "DetectionError") =>
        /\ iterSet = 0
        /\ pc \notin RunningPcs
        /\ (pc = "stopped" =>
                /\ releaseCalls = 1
                /\ destroyCalls = 1
                /\ resetCalls = 1)

\* C12: whatever the value of the reset_volume flag, a run that reached
\* Running has called reset_default_volume at shutdown.
C12_ResetWhateverTheFlag ==
    \A flag \in BOOLEAN :
        (reset_volume = flag /\ pc = "stopped" /\ ReachedRunning) =>
            resetCalls = 1

\* C13: set_volume is called at most once per iteration, only in an
\* iteration whose get_positions result was non-empty, after draw_hands
\* and get_positions for that frame, with the distance that was passed
\* to get_scaled_db; never before the loop starts.
SetVolumeInvariant ==
    /\ iterSet <= 1
    /\ (iterSet = 1 =>
            /\ got = "hand"
            /\ iterDetect = 2
            /\ iterScaled = 1
            /\ setArg = scaledArg
            /\ setArg = FingerDistance(lm_positions))
    /\ (pc \in StartingPcs => setVolumeCalls = 0)
    /\ (setVolumeCalls = 0 => setArg = -1)

\* C13, continued: a set_volume call is made only by line 51, inside the
\* loop, and never once cleanup has begun.
SetVolumeOnlyInLoop ==
    (setVolumeCalls' # setVolumeCalls) =>
        /\ pc = "set_volume"
        /\ releaseCalls = 0
        /\ setVolumeCalls' = setVolumeCalls + 1

C13_SetVolumeDiscipline ==
    [] SetVolumeInvariant /\ [][SetVolumeOnlyInLoop]_vars

C13_Witness ==
    /\ iterSet = 1
    /\ got = "hand"
    /\ frames = 2
    /\ setVolumeCalls = 2
    /\ setArg = 110
    /\ osVolume = 50

C15_NoReleaseOnLateStartupFailure ==
    /\ (stderrMsg \in {"Failed to initialize HandDetector",
                       "Failed to initialize VolumeChanger"} =>
            /\ pc = "stopped"
            /\ capOpen
            /\ releaseCalls = 0
            /\ destroyCalls = 0
            /\ resetCalls = 0)
    /\ (pc = "stopped" /\ releaseCalls >= 1 => ReachedRunning)

C15_Witness ==
    /\ pc = "stopped"
    /\ stderrMsg = "Failed to initialize VolumeChanger"
    /\ capOpen
    /\ detectorUp

====
